---- MODULE Spec2Model ----
(***************************************************************************)
(* Model of Mandelbrots-in-Heaven (src/src/main.rs): the interaction loop  *)
(* of main, the bounds calculator, the escape-time evaluator, the grid     *)
(* generator and the renderer.                                             *)
(*                                                                         *)
(* f64 values are modelled by exact rationals <<numerator, denominator>>   *)
(* in lowest terms with a positive denominator.  u16 values are naturals   *)
(* below 2^16; u16 addition follows the build profile (overflow checks on: *)
(* panic, off: wrap modulo 2^16).                                          *)
(***************************************************************************)
EXTENDS Integers, Sequences, FiniteSets, TLC

VARIABLES
    pc,                 \* position of main: "read", "check", "done", "panicked"
    overflow_checks,    \* build profile: TRUE = arithmetic overflow panics
    event,              \* the value returned by the last event::read()
    terminal_width, terminal_height,
    iterations,
    origin_x, origin_y, x_size, y_size,
    bounds,
    changed, show_help, show_iterations, show_coords,
    overlay,            \* the status panel currently on screen
    last_redraw,        \* inputs of the most recent get_bounds call of the loop
    clicks,             \* number of button-down events handled so far
    fpc,                \* position of the function under evaluation
    arg,                \* arguments of the function under evaluation
    height_interval, width_interval,  \* loop counters of generate_mandelbrot
    grid, max_value,    \* result of generate_mandelbrot
    ret,                \* result of calculate_instability
    index, x, y, prev_value,          \* locals of draw_mandelbrot
    cursor, background, cells         \* the terminal driven by draw_mandelbrot

loopVars == <<pc, overflow_checks, event, terminal_width, terminal_height,
              iterations, origin_x, origin_y, x_size, y_size, bounds,
              changed, show_help, show_iterations, show_coords, overlay,
              last_redraw, clicks>>
funVars == <<fpc, arg, height_interval, width_interval, grid, max_value,
             ret, index, x, y, prev_value, cursor, background, cells>>
vars == <<loopVars, funVars>>

-----------------------------------------------------------------------------
(* Bounds of the model *)

MaxClicks == 1          \* button-down events explored per run
MaxDim == 2             \* largest width and height given to the renderer
MaxIter == 3            \* largest iteration budget given to the evaluator

-----------------------------------------------------------------------------
(* Exact rational arithmetic standing for f64 *)

Abs(n) == IF n < 0 THEN -n ELSE n

RECURSIVE GCD(_, _)
GCD(a, b) == IF b = 0 THEN a ELSE GCD(b, a % b)

RNorm(n, d) ==
    LET s == IF d < 0 THEN -1 ELSE 1
        g == GCD(Abs(n), Abs(d))
    IN  <<(s * n) \div g, (s * d) \div g>>

R(n) == <<n, 1>>
\* sums are formed over the least common denominator
Lcd(a, b) == (a[2] \div GCD(a[2], b[2])) * b[2]
RAdd(a, b) ==
    LET l == Lcd(a, b)
    IN  RNorm(a[1] * (l \div a[2]) + b[1] * (l \div b[2]), l)
RNeg(a) == <<-a[1], a[2]>>
RSub(a, b) == RAdd(a, RNeg(b))
RMul(a, b) == RNorm(a[1] * b[1], a[2] * b[2])
RDiv(a, b) == RNorm(a[1] * b[2], a[2] * b[1])
RLt(a, b) == a[1] * b[2] < b[1] * a[2]
RAbs(a) == <<Abs(a[1]), a[2]>>

-----------------------------------------------------------------------------
(* Program constants of main *)

U16 == 65536
origin_x_default == <<-3, 4>>
origin_y_default == <<0, 1>>
x_size_default == <<3, 1>>
y_size_default == <<3, 1>>
iterations_default == 50
zoom_factor == <<1, 4>>

-----------------------------------------------------------------------------
(* get_bounds *)

get_bounds(ox, oy, xs, ys, tw, th) ==
    LET x_sz == RAbs(xs)
        y_sz == RAbs(ys)
        half == <<1, 2>>
        x_min == RSub(ox, RMul(x_sz, half))
        x_max == RAdd(ox, RMul(x_sz, half))
        y_min == RSub(oy, RMul(y_sz, half))
        y_max == RAdd(oy, RMul(y_sz, half))
        x_ratio == RDiv(RSub(x_max, x_min), R(tw))
        y_ratio == RDiv(RDiv(RSub(y_max, y_min), R(th)), <<5, 2>>)
        y_grow == RDiv(RMul(R(th), x_ratio), R(2))
        x_grow == RDiv(RMul(R(tw), y_ratio), R(2))
        y_min2 == IF RLt(y_ratio, x_ratio) THEN RSub(y_min, y_grow) ELSE y_min
        y_max2 == IF RLt(y_ratio, x_ratio) THEN RAdd(y_max, y_grow) ELSE y_max
        x_min2 == IF RLt(x_ratio, y_ratio) THEN RSub(x_min, x_grow) ELSE x_min
        x_max2 == IF RLt(x_ratio, y_ratio) THEN RAdd(x_max, x_grow) ELSE x_max
    IN  <<x_min2, x_max2, y_min2, y_max2>>

-----------------------------------------------------------------------------
(* The interaction loop of main *)

\* Terminal sizes (columns, rows) reported by terminal::size() and by Resize;
\* at least 2 each way, so that the stored dimensions (one less) are positive
TermSizes == {<<5, 3>>, <<9, 5>>}
\* Mouse positions (row, column) delivered with button-down events
ClickPos == {<<1, 2>>}
OtherChars == {"x"}
OtherKeys == {"Esc"}
Buttons == {"Left", "Right", "Middle"}
OtherMouseKinds == {"Moved"}

\* An event: kind Key (code = the character, or a KeyCode that is no Char
\* when char = FALSE), Mouse (code = Down or another kind, with button, row
\* and column), Resize (width, height), Err (failed read), None (no event).
Ev(kind, code, char, button, a, b) ==
    [kind |-> kind, code |-> code, char |-> char, button |-> button,
     row |-> a, column |-> b]
KeyChar(c) == Ev("Key", c, TRUE, "", 0, 0)
KeyOther(k) == Ev("Key", k, FALSE, "", 0, 0)
MouseDown(btn, row, col) == Ev("Mouse", "Down", FALSE, btn, row, col)
MouseOther(k) == Ev("Mouse", k, FALSE, "", 0, 0)
Resize(w, h) == Ev("Resize", "", FALSE, "", h, w)
ReadErr == Ev("Err", "", FALSE, "", 0, 0)
NoEvent == Ev("None", "", FALSE, "", 0, 0)

NoRedraw == <<>>
ZeroBounds == <<R(0), R(0), R(0), R(0)>>

\* 'i': the step added to the budget
IncStep(v) ==
    IF v >= 1000 THEN 1000
    ELSE IF v >= 100 THEN 100
    ELSE IF v >= 10 THEN 10
    ELSE 1

\* 'j': the new budget
DecIterationsNoFloor(v) ==
    IF v >= 2000 THEN v - 1000
    ELSE IF v >= 200 THEN v - 100
    ELSE IF v >= 20 THEN v - 10
    ELSE v - 1

DecIterations(v) ==
    IF v >= 2000 THEN v - 1000
    ELSE IF v >= 200 THEN v - 100
    ELSE IF v >= 20 THEN v - 10
    ELSE IF v >= 2 THEN v - 1
    ELSE 1

\* The overlay a redraw shows, by the if / else-if chain
OverlayIterationsFirst(help, iters, coords) ==
    IF iters THEN "iterations"
    ELSE IF help THEN "help"
    ELSE IF coords THEN "coords"
    ELSE "none"

PickOverlay(help, iters, coords) ==
    IF help THEN "help"
    ELSE IF iters THEN "iterations"
    ELSE IF coords THEN "coords"
    ELSE "none"

InitLoop ==
    /\ pc = "read"
    /\ event = NoEvent
    /\ \/ \E sz \in TermSizes :
            /\ terminal_width = sz[1] - 1
            /\ terminal_height = sz[2] - 1
       \/ /\ terminal_width = 80
          /\ terminal_height = 80
    /\ iterations = iterations_default
    /\ origin_x = origin_x_default
    /\ origin_y = origin_y_default
    /\ x_size = x_size_default
    /\ y_size = y_size_default
    /\ bounds = ZeroBounds
    /\ changed = TRUE
    /\ show_help = TRUE
    /\ show_iterations = FALSE
    /\ show_coords = FALSE
    /\ overlay = "none"
    /\ last_redraw = NoRedraw
    /\ clicks = 0

\* the terminal's own background, in force until a colour is set
default_color == <<>>

\* No function has been entered: locals, results and terminal at rest
FunLocals ==
    /\ height_interval = 0
    /\ width_interval = 0
    /\ grid = <<>>
    /\ max_value = 0
    /\ ret = 0
    /\ index = 0
    /\ x = 0
    /\ y = 0
    /\ prev_value = 0
    /\ cursor = <<0, 0>>
    /\ background = default_color
    /\ cells = <<>>

IdleFun == fpc = "idle" /\ arg = <<>> /\ FunLocals

\* The debug profile: arithmetic overflow panics
Init == InitLoop /\ overflow_checks = TRUE /\ IdleFun

\* Either profile: overflow panics (debug) or wraps (release)
InitAnyProfile ==
    InitLoop /\ overflow_checks \in BOOLEAN /\ IdleFun

viewVars == <<origin_x, origin_y, x_size, y_size>>
dimVars == <<terminal_width, terminal_height>>
flagVars == <<changed, show_help, show_iterations, show_coords>>

KeyQuit ==
    /\ pc = "read"
    /\ event' = KeyChar("q")
    /\ pc' = "done"
    /\ UNCHANGED <<overflow_checks, dimVars, iterations, viewVars, bounds,
                   flagVars, overlay, last_redraw, clicks, funVars>>

KeyReset ==
    /\ pc = "read"
    /\ event' = KeyChar("r")
    /\ origin_x' = origin_x_default
    /\ origin_y' = origin_y_default
    /\ x_size' = x_size_default
    /\ y_size' = y_size_default
    /\ iterations' = iterations_default
    /\ changed' = TRUE
    /\ pc' = "check"
    /\ UNCHANGED <<overflow_checks, dimVars, bounds, show_help,
                   show_iterations, show_coords, overlay, last_redraw,
                   clicks, funVars>>

KeyCoords ==
    /\ pc = "read"
    /\ event' = KeyChar("c")
    /\ show_coords' = TRUE
    /\ changed' = TRUE
    /\ pc' = "check"
    /\ UNCHANGED <<overflow_checks, dimVars, iterations, viewVars, bounds,
                   show_help, show_iterations, overlay, last_redraw, clicks,
                   funVars>>

KeyIncrease ==
    /\ pc = "read"
    /\ event' = KeyChar("i")
    /\ LET sum == iterations + IncStep(iterations)
       IN  IF sum >= U16 /\ overflow_checks
           THEN /\ pc' = "panicked"
                /\ UNCHANGED <<iterations, show_iterations, changed>>
           ELSE /\ iterations' = sum % U16
                /\ show_iterations' = TRUE
                /\ changed' = TRUE
                /\ pc' = "check"
    /\ UNCHANGED <<overflow_checks, dimVars, viewVars, bounds, show_help,
                   show_coords, overlay, last_redraw, clicks, funVars>>

KeyDecrease ==
    /\ pc = "read"
    /\ event' = KeyChar("j")
    /\ iterations' = DecIterations(iterations)
    /\ show_iterations' = TRUE
    /\ changed' = TRUE
    /\ pc' = "check"
    /\ UNCHANGED <<overflow_checks, dimVars, viewVars, bounds, show_help,
                   show_coords, overlay, last_redraw, clicks, funVars>>

\* any other character, or a key that is no character: print_help
KeyUnbound ==
    /\ pc = "read"
    /\ \/ \E c \in OtherChars : event' = KeyChar(c)
       \/ \E k \in OtherKeys : event' = KeyOther(k)
    /\ overlay' = "help"
    /\ pc' = "check"
    /\ UNCHANGED <<overflow_checks, dimVars, iterations, viewVars, bounds,
                   flagVars, last_redraw, clicks, funVars>>

\* MouseEventKind::Down: the origin moves for every button, then the button
\* decides between zooming in, zooming out and print_help
MouseButtonDown ==
    /\ pc = "read"
    /\ clicks < MaxClicks
    /\ \E btn \in Buttons, pos \in ClickPos :
        /\ event' = MouseDown(btn, pos[1], pos[2])
        /\ origin_x' = RAdd(RMul(RDiv(R(pos[2]), R(terminal_width)),
                                 RSub(bounds[2], bounds[1])), bounds[1])
        /\ origin_y' = RAdd(RMul(RDiv(R(pos[1]), R(terminal_height)),
                                 RSub(bounds[4], bounds[3])), bounds[3])
        /\ CASE btn = "Left" ->
                    /\ x_size' = RMul(x_size, zoom_factor)
                    /\ y_size' = RMul(y_size, zoom_factor)
                    /\ changed' = TRUE
                    /\ UNCHANGED overlay
             [] btn = "Right" ->
                    /\ x_size' = RDiv(x_size, zoom_factor)
                    /\ y_size' = RDiv(y_size, zoom_factor)
                    /\ changed' = TRUE
                    /\ UNCHANGED overlay
             [] OTHER ->
                    /\ overlay' = "help"
                    /\ UNCHANGED <<x_size, y_size, changed>>
    /\ clicks' = clicks + 1
    /\ pc' = "check"
    /\ UNCHANGED <<overflow_checks, dimVars, iterations, bounds, show_help,
                   show_iterations, show_coords, last_redraw, funVars>>

MouseIgnored ==
    /\ pc = "read"
    /\ \E k \in OtherMouseKinds : event' = MouseOther(k)
    /\ pc' = "check"
    /\ UNCHANGED <<overflow_checks, dimVars, iterations, viewVars, bounds,
                   flagVars, overlay, last_redraw, clicks, funVars>>

Resized ==
    /\ pc = "read"
    /\ \E sz \in TermSizes :
        /\ event' = Resize(sz[1], sz[2])
        /\ terminal_width' = sz[1] - 1
        /\ terminal_height' = sz[2] - 1
    /\ changed' = TRUE
    /\ show_help' = TRUE
    /\ pc' = "check"
    /\ UNCHANGED <<overflow_checks, iterations, viewVars, bounds,
                   show_iterations, show_coords, overlay, last_redraw,
                   clicks, funVars>>

ReadFailed ==
    /\ pc = "read"
    /\ event' = ReadErr
    /\ pc' = "check"
    /\ UNCHANGED <<overflow_checks, dimVars, iterations, viewVars, bounds,
                   flagVars, overlay, last_redraw, clicks, funVars>>

\* if changed { get_bounds; draw_mandelbrot; one overlay }.  The frame drawn
\* by draw_mandelbrot (modelled below) replaces whatever panel was shown.
Redraw ==
    /\ pc = "check"
    /\ changed
    /\ bounds' = get_bounds(origin_x, origin_y, x_size, y_size,
                            terminal_width, terminal_height)
    /\ last_redraw' = <<origin_x, origin_y, x_size, y_size,
                        terminal_width, terminal_height>>
    /\ changed' = FALSE
    /\ LET shown == PickOverlay(show_help, show_iterations, show_coords)
       IN  /\ overlay' = shown
           /\ show_help' = IF shown = "help" THEN FALSE ELSE show_help
           /\ show_iterations' =
                  IF shown = "iterations" THEN FALSE ELSE show_iterations
           /\ show_coords' = IF shown = "coords" THEN FALSE ELSE show_coords
    /\ event' = NoEvent
    /\ pc' = "read"
    /\ UNCHANGED <<overflow_checks, dimVars, iterations, viewVars, clicks,
                   funVars>>

NoRedrawNeeded ==
    /\ pc = "check"
    /\ ~changed
    /\ event' = NoEvent
    /\ pc' = "read"
    /\ UNCHANGED <<overflow_checks, dimVars, iterations, viewVars, bounds,
                   flagVars, overlay, last_redraw, clicks, funVars>>

Next ==
    \/ KeyQuit
    \/ KeyReset
    \/ KeyCoords
    \/ KeyIncrease
    \/ KeyDecrease
    \/ KeyUnbound
    \/ MouseButtonDown
    \/ MouseIgnored
    \/ Resized
    \/ ReadFailed
    \/ Redraw
    \/ NoRedrawNeeded

Spec == Init /\ [][Next]_vars

\* The loop under either build profile, driven by every event but the
\* button-down events
NextKeys ==
    \/ KeyQuit
    \/ KeyReset
    \/ KeyCoords
    \/ KeyIncrease
    \/ KeyDecrease
    \/ KeyUnbound
    \/ MouseIgnored
    \/ Resized
    \/ ReadFailed
    \/ Redraw
    \/ NoRedrawNeeded

SpecKeys == InitAnyProfile /\ [][NextKeys]_vars

-----------------------------------------------------------------------------
(* calculate_instability *)

\* Complex<f64>: <<re, im>>
CZero == <<R(0), R(0)>>
CAdd(a, b) == <<RAdd(a[1], b[1]), RAdd(a[2], b[2])>>
CMul(a, b) == <<RSub(RMul(a[1], b[1]), RMul(a[2], b[2])),
                RAdd(RMul(a[1], b[2]), RMul(a[2], b[1]))>>
\* z.norm() > 2.0, the norm being sqrt(re^2 + im^2)
NormAbove2(z) == RLt(R(4), RAdd(RMul(z[1], z[1]), RMul(z[2], z[2])))

\* the for loop over iteration in 1..=max_iterations
RECURSIVE InstabilityLoop(_, _, _, _)
InstabilityLoop(c, max_iterations, iteration, prev_z) ==
    IF iteration > max_iterations THEN 0
    ELSE LET z == CAdd(CMul(prev_z, prev_z), c)
         IN  IF NormAbove2(z) THEN iteration
             ELSE InstabilityLoop(c, max_iterations, iteration + 1, z)

calculate_instability_exclusive(c, max_iterations) ==
    InstabilityLoop(c, max_iterations - 1, 1, CZero)

calculate_instability(c, max_iterations) ==
    InstabilityLoop(c, max_iterations, 1, CZero)

\* The loop at rest while a function is evaluated on its own
IdleLoop ==
    /\ InitLoop
    /\ overflow_checks = TRUE
    /\ terminal_width = 80
    /\ terminal_height = 80

\* Coordinates of the points given to the evaluator
Coords == {<<-2, 1>>, <<-1, 1>>, <<-1, 2>>, <<0, 1>>, <<1, 2>>, <<1, 1>>,
           <<2, 1>>}

InitInstability ==
    /\ IdleLoop
    /\ FunLocals
    /\ fpc = "call_instability"
    /\ \E re \in Coords, im \in Coords, m \in 1..MaxIter :
           arg = <<<<re, im>>, m>>

CallInstability ==
    /\ fpc = "call_instability"
    /\ ret' = calculate_instability(arg[1], arg[2])
    /\ fpc' = "returned"
    /\ UNCHANGED <<loopVars, arg, height_interval, width_interval, grid,
                   max_value, index, x, y, prev_value, cursor, background,
                   cells>>

NextInstability == CallInstability

SpecInstability == InitInstability /\ [][NextInstability]_vars

-----------------------------------------------------------------------------
(* lerp and scale_color *)

\* f64 as u8 and f64 as usize: truncation, saturating at the type's range
RToU8(r) ==
    IF r[1] < 0 THEN 0
    ELSE IF r[1] \div r[2] > 255 THEN 255
    ELSE r[1] \div r[2]
RToUsize(r) == IF r[1] < 0 THEN 0 ELSE r[1] \div r[2]

lerp(perc, low, high) ==
    LET percentage ==
            IF RLt(perc, R(1))
            THEN (IF RLt(R(0), perc) THEN perc ELSE R(0))
            ELSE R(1)
    IN  RToU8(RAdd(R(low), RMul(RSub(R(high), R(low)), percentage)))

none_color == <<0, 0, 0>>
colors == <<
    <<13, 0, 51>>,
    <<20, 28, 132>>,
    <<111, 118, 210>>,
    <<220, 106, 136>>,
    <<240, 120, 140>> >>

\* the palette is indexed from 0 in the source and from 1 here
low_index_last_anchor(value, max) ==
    RToUsize(RMul(RDiv(R(value), R(max)), R(Len(colors) - 1)))

low_index(value, max) ==
    RToUsize(RMul(RDiv(R(value), R(max)), R(Len(colors) - 2)))

scale_color(value, max) ==
    IF value = 0 THEN none_color
    ELSE LET percentage == RDiv(R(value), R(max))
             li == low_index(value, max)
         IN  <<lerp(percentage, colors[li + 1][1], colors[li + 2][1]),
               lerp(percentage, colors[li + 1][2], colors[li + 2][2]),
               lerp(percentage, colors[li + 1][3], colors[li + 2][3])>>

-----------------------------------------------------------------------------
(* generate_mandelbrot and draw_mandelbrot *)

\* arg of draw_mandelbrot:
\*   <<x_min, x_max, y_min, y_max, width, height, max_iterations>>
ArgWidth == arg[5]
ArgHeight == arg[6]
ArgMaxIterations == arg[7]

\* the sample point of the cell in row r, column c
SamplePoint(r, c) ==
    LET width_delta == RDiv(RSub(arg[2], arg[1]), R(ArgWidth))
        height_delta == RDiv(RSub(arg[4], arg[3]), R(ArgHeight))
        x_pt == RAdd(RAdd(arg[1], RDiv(width_delta, R(2))),
                     RMul(R(c), width_delta))
        y_pt == RAdd(RAdd(arg[3], RDiv(height_delta, R(2))),
                     RMul(R(r), height_delta))
    IN  <<x_pt, y_pt>>

\* the running maximum kept by generate_mandelbrot
RunningMaxInverted(instability, max) ==
    IF instability < max THEN instability ELSE max

RunningMax(instability, max) ==
    IF instability > max THEN instability ELSE max

\* the condition under which draw_mandelbrot sets the background colour
ColorOnChangeOnly(i, value, prev) == value # prev

SetsColor(i, value, prev) == i = 0 \/ value # prev

\* Plane regions given to the renderer
Regions == {<<R(-2), R(2), R(-2), R(2)>>,
            <<R(-3), R(1), R(-1), R(3)>>,
            <<R(-2), R(0), R(0), R(0)>>}

InitDraw ==
    /\ IdleLoop
    /\ FunLocals
    /\ fpc = "generate"
    /\ \E b \in Regions, w \in 0..MaxDim, h \in 0..MaxDim, m \in 1..MaxIter :
           arg = <<b[1], b[2], b[3], b[4], w, h, m>>

\* one pass of the inner loop of generate_mandelbrot
GenerateCell ==
    /\ fpc = "generate"
    /\ height_interval < ArgHeight
    /\ width_interval < ArgWidth
    /\ LET c == SamplePoint(height_interval, width_interval)
           instability == calculate_instability(c, ArgMaxIterations)
       IN  /\ max_value' = RunningMax(instability, max_value)
           /\ grid' = Append(grid, instability)
    /\ width_interval' = width_interval + 1
    /\ UNCHANGED <<loopVars, fpc, arg, height_interval, ret, index, x, y,
                   prev_value, cursor, background, cells>>

\* the inner loop is exhausted: next pass of the outer loop
GenerateRowDone ==
    /\ fpc = "generate"
    /\ height_interval < ArgHeight
    /\ width_interval >= ArgWidth
    /\ height_interval' = height_interval + 1
    /\ width_interval' = 0
    /\ UNCHANGED <<loopVars, fpc, arg, grid, max_value, ret, index, x, y,
                   prev_value, cursor, background, cells>>

\* generate_mandelbrot returns (grid, max_value); draw_mandelbrot sets up
\* its locals
GenerateReturn ==
    /\ fpc = "generate"
    /\ height_interval >= ArgHeight
    /\ fpc' = "draw"
    /\ index' = 0
    /\ x' = 0
    /\ y' = 0
    /\ prev_value' = 0
    /\ UNCHANGED <<loopVars, arg, height_interval, width_interval, grid,
                   max_value, ret, cursor, background, cells>>

\* one pass of the loop of draw_mandelbrot.  The terminal executes MoveTo
\* by placing the cursor, SetBackgroundColor by changing the active
\* background, and Print(" ") by writing one cell at the cursor in the
\* active background and advancing the cursor by one column.
DrawCell ==
    /\ fpc = "draw"
    /\ index < Len(grid)
    /\ LET row_start == index % ArgWidth = 0
           value == grid[index + 1]
           at == IF row_start THEN <<0, y>> ELSE cursor
           bg == IF SetsColor(index, value, prev_value)
                 THEN scale_color(value, max_value)
                 ELSE background
       IN  /\ y' = IF row_start THEN y + 1 ELSE y
           /\ x' = (IF row_start THEN 0 ELSE x) + 1
           /\ prev_value' = IF SetsColor(index, value, prev_value)
                            THEN value ELSE prev_value
           /\ background' = bg
           /\ cells' = Append(cells, [column |-> at[1], row |-> at[2],
                                      color |-> bg])
           /\ cursor' = <<at[1] + 1, at[2]>>
    /\ index' = index + 1
    /\ UNCHANGED <<loopVars, fpc, arg, height_interval, width_interval,
                   grid, max_value, ret>>

\* after the loop: MoveTo(0, 0), ResetColor, flush
DrawDone ==
    /\ fpc = "draw"
    /\ index >= Len(grid)
    /\ cursor' = <<0, 0>>
    /\ background' = default_color
    /\ fpc' = "drawn"
    /\ UNCHANGED <<loopVars, arg, height_interval, width_interval, grid,
                   max_value, ret, index, x, y, prev_value, cells>>

NextDraw ==
    \/ GenerateCell
    \/ GenerateRowDone
    \/ GenerateReturn
    \/ DrawCell
    \/ DrawDone

SpecDraw == InitDraw /\ [][NextDraw]_vars

-----------------------------------------------------------------------------
(* Claims about the interaction loop *)

\* C1: the iteration budget, a u16, is at least 1 in every reachable state,
\* whatever events are handled and whichever way the build treats overflow.
C1_BudgetPositive == iterations \in 1..(U16 - 1)

\* C1 witness: the decrease key has been handled and left the budget at 1.
C1_Witness == pc = "check" /\ event = KeyChar("j") /\ iterations = 1

\* C2: handling 'i' with budget v leaves the budget at exactly v + step(v),
\* so the budget strictly increases on every 'i'.
C2_IncreaseExact ==
    [][KeyIncrease =>
         /\ iterations' = iterations + IncStep(iterations)
         /\ iterations' > iterations]_vars

\* C3: a primary or secondary click, the very first event included, maps the
\* mouse position through bounds that the most recent redraw stored.
C3_ClickUsesRedrawBounds ==
    [][(MouseButtonDown /\ event'.button \in {"Left", "Right"}) =>
         /\ last_redraw # NoRedraw
         /\ bounds = get_bounds(last_redraw[1], last_redraw[2],
                                last_redraw[3], last_redraw[4],
                                last_redraw[5], last_redraw[6])]_vars

\* C4: whenever the loop is about to read an event after at least one loop
\* iteration, the stored bounds are get_bounds of the current view state and
\* terminal dimensions.
C4_BoundsCurrent ==
    (pc = "read" /\ last_redraw # NoRedraw) =>
        bounds = get_bounds(origin_x, origin_y, x_size, y_size,
                            terminal_width, terminal_height)

\* C5: an unbound key, a button-down of another mouse button, another mouse
\* event kind and a failed read leave origin, extents, budget and terminal
\* dimensions unchanged.
C5_OthersAreNoOps ==
    [][(\/ KeyUnbound
        \/ MouseIgnored
        \/ ReadFailed
        \/ (MouseButtonDown /\ event'.button = "Middle")) =>
         UNCHANGED <<origin_x, origin_y, x_size, y_size, iterations,
                     terminal_width, terminal_height>>]_vars

\* C6: a redraw shows at most one overlay, help before iterations before
\* coordinates among the flags set; it clears the flag of the overlay shown
\* and no other, and clears the dirty flag.
C6_OverlayPrecedence ==
    [][Redraw =>
         /\ (overlay' = "help") = show_help
         /\ (overlay' = "iterations") = (~show_help /\ show_iterations)
         /\ (overlay' = "coords") =
                (~show_help /\ ~show_iterations /\ show_coords)
         /\ (overlay' = "none") =
                (~show_help /\ ~show_iterations /\ ~show_coords)
         /\ show_help' = (show_help /\ overlay' # "help")
         /\ show_iterations' = (show_iterations /\ overlay' # "iterations")
         /\ show_coords' = (show_coords /\ overlay' # "coords")
         /\ ~changed']_vars

\* C6 witness: a redraw has shown the iterations panel while the coordinates
\* flag was set too, and that flag is still pending.
C6_Witness ==
    /\ pc = "read"
    /\ overlay = "iterations"
    /\ ~show_iterations
    /\ show_coords
    /\ ~changed

-----------------------------------------------------------------------------
(* Claims about calculate_instability *)

\* z_n of the recurrence z_0 = 0, z_(n+1) = z_n^2 + c
RECURSIVE Orbit(_, _)
Orbit(c, n) ==
    IF n = 0 THEN CZero
    ELSE LET p == Orbit(c, n - 1) IN CAdd(CMul(p, p), c)

\* C7: calculate_instability(c, max_iterations) is the smallest n in
\* 1..max_iterations with |z_n| > 2, or 0 when there is none; it lies in
\* 0..max_iterations, is 0 for c = (0, 0) and 1 for c = (2, 2).
C7_SmallestEscape ==
    fpc = "returned" =>
        LET c == arg[1]
            m == arg[2]
        IN  /\ ret \in 0..m
            /\ \/ /\ ret = 0
                  /\ \A n \in 1..m : ~NormAbove2(Orbit(c, n))
               \/ /\ ret \in 1..m
                  /\ NormAbove2(Orbit(c, ret))
                  /\ \A n \in 1..(ret - 1) : ~NormAbove2(Orbit(c, n))
            /\ (c = CZero => ret = 0)
            /\ (c = <<R(2), R(2)>> => ret = 1)

\* C7 witness: a point that escapes at the last iteration of a budget of 3.
C7_Witness == fpc = "returned" /\ arg[2] = 3 /\ ret = 3

-----------------------------------------------------------------------------
(* Claims about generate_mandelbrot and draw_mandelbrot *)

Max(a, b) == IF a > b THEN a ELSE b
RECURSIVE SeqMax(_)
SeqMax(q) == IF q = <<>> THEN 0 ELSE Max(Head(q), SeqMax(Tail(q)))

\* C8: generate_mandelbrot returns width*height values in row-major order
\* (the value at row r, column c sits at position r*width + c) and a
\* max_value that is the maximum of those values, 0 for an empty grid; the
\* maximum is kept up to date with every value pushed.
C8_GridAndMax ==
    /\ fpc = "generate" => max_value = SeqMax(grid)
    /\ fpc \in {"draw", "drawn"} =>
        /\ Len(grid) = ArgWidth * ArgHeight
        /\ max_value = SeqMax(grid)
        /\ \A r \in 0..(ArgHeight - 1), c \in 0..(ArgWidth - 1) :
               grid[r * ArgWidth + c + 1] =
                   calculate_instability(SamplePoint(r, c), ArgMaxIterations)

\* C8 witness: a returned grid of two rows and two columns whose cells
\* (0, 1) and (1, 0) differ, with both bounded and escaping cells.
C8_Witness ==
    /\ fpc = "draw"
    /\ index = 0
    /\ ArgWidth = 2
    /\ ArgHeight = 2
    /\ grid[2] # grid[3]
    /\ max_value > 0
    /\ \E i \in 1..Len(grid) : grid[i] = 0

\* C9: every cell draw_mandelbrot renders has value <= max_value, with
\* max_value = 0 only when value = 0; so for a non-zero value the lower
\* palette index is in 0..3 and index and index + 1 are inside the palette
\* of 5 colours.
C9_PaletteInRange ==
    (fpc = "draw" /\ index < Len(grid)) =>
        LET value == grid[index + 1]
        IN  /\ value <= max_value
            /\ (max_value = 0 => value = 0)
            /\ value # 0 =>
                /\ low_index(value, max_value) \in 0..3
                /\ low_index(value, max_value) + 1 < Len(colors)

\* C9 witness: the cell about to be rendered holds the grid's maximum, so
\* the lower palette index is the largest one, 3.
C9_Witness ==
    /\ fpc = "draw"
    /\ index < Len(grid)
    /\ grid[index + 1] = max_value
    /\ max_value > 0
    /\ low_index(grid[index + 1], max_value) = 3

\* C10: draw_mandelbrot writes exactly width*height cells, cell i at column
\* i mod width of row i div width, each in the background
\* scale_color(its value, max_value), and leaves the cursor at (0, 0).
C10_CellsDrawn ==
    /\ fpc \in {"draw", "drawn"} =>
        \A i \in 1..Len(cells) :
            cells[i] = [column |-> (i - 1) % ArgWidth,
                        row |-> (i - 1) \div ArgWidth,
                        color |-> scale_color(grid[i], max_value)]
    /\ fpc = "drawn" =>
        /\ Len(cells) = ArgWidth * ArgHeight
        /\ cursor = <<0, 0>>

\* C10 witness: a finished frame of two rows in which a cell was printed
\* without re-setting the colour (same value as its left neighbour) and a
\* cell was printed after a colour change.
C10_Witness ==
    /\ fpc = "drawn"
    /\ ArgHeight = 2
    /\ ArgWidth = 2
    /\ \E i \in 1..(Len(grid) - 1) : grid[i] = grid[i + 1]
    /\ \E i \in 1..(Len(grid) - 1) : grid[i] # grid[i + 1]

====
